---- MODULE Spec2Model ----
(***************************************************************************)
(* Model of the wobble Spring (src/index.ts): the closed-form damped       *)
(* harmonic oscillator solver and the simulation state machine that        *)
(* drives it from requestAnimationFrame ticks.                             *)
(*                                                                         *)
(* Numbers.  Every JavaScript number of the program is modelled as a       *)
(* fixed-point integer with three decimals: the integer n stands for the   *)
(* real n / SCALE.  Times are milliseconds in the same representation.     *)
(* Arithmetic truncates toward zero; the transcendental functions are      *)
(* evaluated by their power series in that arithmetic.                     *)
(***************************************************************************)
EXTENDS Integers, Sequences, FiniteSets, TLC

SCALE == 1000

\* ------------------------------------------------------------------------
\* Fixed-point arithmetic
\* ------------------------------------------------------------------------

Abs(x) == IF x < 0 THEN 0 - x ELSE x

Sgn(x) == IF x < 0 THEN 0 - 1 ELSE 1

\* ua * ub for ua, ub >= 0; the product is split so that it stays in range
MulAbs(ua, ub) == (ua \div SCALE) * ub + ((ua % SCALE) * ub) \div SCALE

\* a * b
Mul(a, b) == Sgn(a) * Sgn(b) * MulAbs(Abs(a), Abs(b))

\* ua / ub for ua >= 0, ub > 0
DivAbs(ua, ub) == (ua \div ub) * SCALE + ((ua % ub) * SCALE) \div ub

\* a / b  (b # 0)
Div(a, b) == Sgn(a) * Sgn(b) * DivAbs(Abs(a), Abs(b))

\* truncating division of a fixed-point number by a plain integer
TDiv(a, n) == Sgn(a) * (Abs(a) \div n)

RECURSIVE ISqrtSearch(_, _, _)
ISqrtSearch(n, lo, hi) ==
  IF lo >= hi THEN lo
  ELSE IF ((lo + hi + 1) \div 2) * ((lo + hi + 1) \div 2) <= n
       THEN ISqrtSearch(n, (lo + hi + 1) \div 2, hi)
       ELSE ISqrtSearch(n, lo, (lo + hi + 1) \div 2 - 1)

\* floor of the square root of the plain natural number n
ISqrt(n) == ISqrtSearch(n, 0, 46340)

\* Math.sqrt(x), x >= 0
Sqrt(x) ==
  IF x <= 2000000 THEN ISqrt(x * SCALE) ELSE 100 * ISqrt(x \div 10)

RECURSIVE ExpSeries(_, _, _, _)
ExpSeries(x, term, n, acc) ==
  IF term = 0 \/ n > 60 THEN acc
  ELSE ExpSeries(x, Mul(term, x) \div n, n + 1, acc + term)

\* Math.exp(-x), x >= 0: the reciprocal of the series of e^x
ExpNeg(x) ==
  IF x > 12000 THEN 0 ELSE Div(SCALE, ExpSeries(x, SCALE, 1, 0))

PI == 3142

\* r in [0, 2 PI) moved to (-PI, PI]
Wrap(r) == IF r > PI THEN r - 2 * PI ELSE r

\* the angle reduced to [-PI, PI]
Reduce(x) == Sgn(x) * Wrap(Abs(x) % (2 * PI))

RECURSIVE TrigSeries(_, _, _, _)
\* sum of the alternating series whose current term is term and whose next
\* term is -term * y^2 / (n * (n + 1))
TrigSeries(y, term, n, acc) ==
  IF term = 0 \/ n > 40 THEN acc
  ELSE TrigSeries(y, 0 - TDiv(Mul(Mul(term, y), y), n * (n + 1)), n + 2,
                  acc + term)

SinReduced(y) == TrigSeries(y, y, 2, 0)

\* Math.sin(x)
Sin(x) == SinReduced(Reduce(x))

\* Math.cos(x)
Cos(x) == TrigSeries(Reduce(x), SCALE, 1, 0)

\* ------------------------------------------------------------------------
\* Oscillator solver (the closed form inside _advanceSpringToTime)
\* ------------------------------------------------------------------------

Square(x) == Mul(x, x)

\* damping ratio, before the allowsOverdamping clamp
Zeta0(cfg) == Div(cfg.damping, 2 * Sqrt(Mul(cfg.stiffness, cfg.mass)))

\* a damping ratio that is never clamped
ClampNever(zeta, allowsOverdamping) == zeta

\* if (zeta > 1 && !allowsOverdamping) zeta = 1
ClampZeta(zeta, allowsOverdamping) ==
  IF zeta > SCALE /\ ~allowsOverdamping THEN SCALE ELSE zeta

\* damping ratio used to select the regime
Zeta(cfg) == ClampZeta(Zeta0(cfg), cfg.allowsOverdamping)

\* undamped angular frequency (rad/ms)
Omega0(cfg) == Div(Sqrt(Div(cfg.stiffness, cfg.mass)), 1000 * SCALE)

Omega1(cfg) == Mul(Omega0(cfg), Sqrt(SCALE - Square(Zeta0(cfg))))

Omega2(cfg) == Mul(Omega0(cfg), Sqrt(Square(Zeta0(cfg)) - SCALE))

\* envelope * Math.sinh(b) with envelope = Math.exp(-a), 0 <= b <= a; the
\* product is formed in the exponent, where three decimals can hold it
EnvSinh(a, b) == (ExpNeg(a - b) - ExpNeg(a + b)) \div 2

\* envelope * Math.cosh(b) with envelope = Math.exp(-a), 0 <= b <= a
EnvCosh(a, b) == (ExpNeg(a - b) + ExpNeg(a + b)) \div 2

\* the under-damped formulas; A is v0 + zeta * omega0 * x0, zw is
\* zeta * omega0
UnderDampedPoint(toValue, x0, A, zw, omega1, envelope, sin, cos) ==
  [value |-> toValue
             - Mul(envelope, Mul(Div(A, omega1), sin) + Mul(x0, cos)),
   velocity |-> Mul(Mul(zw, envelope),
                    Div(Mul(sin, A), omega1) + Mul(x0, cos))
                - Mul(envelope,
                      Mul(cos, A) - Mul(Mul(omega1, x0), sin))]

UnderDampedWith(cfg, t, x0, v0, zw, omega1) ==
  UnderDampedPoint(cfg.toValue, x0, v0 + Mul(zw, x0), zw, omega1,
                   ExpNeg(Mul(zw, t)),
                   Sin(Mul(omega1, t)), Cos(Mul(omega1, t)))

UnderDamped(cfg, t) ==
  UnderDampedWith(cfg, t, cfg.toValue - cfg.fromValue,
                  0 - cfg.initialVelocity,
                  Mul(Zeta(cfg), Omega0(cfg)), Omega1(cfg))

CriticallyDampedWith(toValue, t, x0, v0, omega0, envelope) ==
  [value |-> toValue - Mul(envelope, x0 + Mul(v0 + Mul(omega0, x0), t)),
   velocity |-> Mul(envelope,
                    Mul(v0, Mul(t, omega0) - SCALE)
                    + Mul(Mul(t, x0), Mul(omega0, omega0)))]

CriticallyDampedAt(cfg, t, omega0) ==
  CriticallyDampedWith(cfg.toValue, t, cfg.toValue - cfg.fromValue,
                       0 - cfg.initialVelocity, omega0,
                       ExpNeg(Mul(omega0, t)))

CriticallyDamped(cfg, t) == CriticallyDampedAt(cfg, t, Omega0(cfg))

\* the over-damped formulas; es and ec are envelope * sinh(omega2 * t) and
\* envelope * cosh(omega2 * t)
OverDampedPoint(toValue, x0, A, zw, omega2, es, ec) ==
  [value |-> toValue
             - Div(Mul(A, es) + Mul(Mul(omega2, x0), ec), omega2),
   velocity |-> Div(Mul(zw, Mul(es, A) + Mul(Mul(x0, omega2), ec)),
                    omega2)
                - Div(Mul(Mul(omega2, ec), A)
                      + Mul(Mul(Mul(omega2, omega2), x0), es),
                      omega2)]

OverDampedWith(cfg, t, x0, v0, zw, omega2) ==
  OverDampedPoint(cfg.toValue, x0, v0 + Mul(zw, x0), zw, omega2,
                  EnvSinh(Mul(zw, t), Mul(omega2, t)),
                  EnvCosh(Mul(zw, t), Mul(omega2, t)))

OverDamped(cfg, t) ==
  OverDampedWith(cfg, t, cfg.toValue - cfg.fromValue,
                 0 - cfg.initialVelocity,
                 Mul(Zeta(cfg), Omega0(cfg)), Omega2(cfg))

\* the branch on the damping ratio
SolveFor(zeta, cfg, t) ==
  IF zeta < SCALE THEN UnderDamped(cfg, t)
  ELSE IF zeta = SCALE THEN CriticallyDamped(cfg, t)
  ELSE OverDamped(cfg, t)

\* (oscillation, velocity) at spring-time t
Solve(cfg, t) == SolveFor(Zeta(cfg), cfg, t)

\* ------------------------------------------------------------------------
\* Bounds and input sets
\* ------------------------------------------------------------------------

MaxClock == 2         \* clock advances
MaxUpdates == 2       \* updateConfig calls made by the host
MaxDepth == 4         \* nesting of listener calls inside one operation
MaxListeners == 3     \* entries of the listener registry
MaxFrames == 2        \* callbacks the scheduler holds when a reentrant run
                      \* is carried on

\* Spring.MAX_DELTA_TIME_MS = 1 / 60 * 1000 * 4
MAX_DELTA_TIME_MS == 66667

\* Date.now() when the spring is constructed
StartTime == 5000 * SCALE

\* wall-clock advances between operations: one 60fps frame, and a stall
ClockSteps == {16 * SCALE, 100 * SCALE}

\* partial configs handed to the constructor
CtorPartials ==
  { [stiffness |-> 10000 * SCALE, damping |-> 100 * SCALE,
     overshootClamping |-> TRUE,
     restVelocityThreshold |-> 10, restDisplacementThreshold |-> 20],
    [stiffness |-> 10000 * SCALE, damping |-> 200 * SCALE,
     restVelocityThreshold |-> 10, restDisplacementThreshold |-> 10] }

\* partial configs handed to updateConfig by the host
HostPartials ==
  { [toValue |-> 2 * SCALE],
    [fromValue |-> SCALE, toValue |-> SCALE, initialVelocity |-> 0] }

\* the partial config an "update" listener hands to updateConfig
ListenerPartial == [toValue |-> 990]

\* A listener callback is named by what its body does with the spring:
\* "record" only observes it, "stop" calls spring.stop(), "start" calls
\* spring.start(), "update" calls spring.updateConfig(ListenerPartial),
\* "add" calls spring.onUpdate(g) while the registry has fewer than
\* MaxListeners entries, "remove" calls spring.removeListener(g), "clear"
\* calls spring.removeAllListeners(); "f" and "g" are observers.
Listener(kind, fn) == [kind |-> kind, fn |-> fn]

\* The registries the host builds with onStart/onUpdate/onStop right after
\* construction: none; observers of every event; an onUpdate listener that
\* stops the spring, followed by an observer; an onStart listener that stops
\* the spring; an onUpdate listener that retargets the spring.
Registries ==
  { <<>>,
    <<Listener("onStart", "record"), Listener("onStart", "record"),
      Listener("onUpdate", "record"),
      Listener("onStop", "record"), Listener("onStop", "record")>>,
    <<Listener("onUpdate", "stop"), Listener("onUpdate", "record")>>,
    <<Listener("onStart", "stop"), Listener("onStop", "record")>>,
    <<Listener("onUpdate", "update"), Listener("onStop", "record")>> }

\* the partial config {}
EmptyPartial == [key \in {} |-> 0]

\* Inputs of the runs that exercise the physical parameters: constructor
\* partials that leave every field to its default, or make the mass, the
\* stiffness or the damping invalid
ParamCtorPartials ==
  { EmptyPartial,
    [mass |-> 0],
    [stiffness |-> 0],
    [damping |-> 0 - 5 * SCALE] }

\* ... and updateConfig partials that change nothing, repair the three
\* parameters, zero the stiffness, or supply the starting point
ParamPartials ==
  { EmptyPartial,
    [mass |-> SCALE, stiffness |-> 100 * SCALE, damping |-> 10 * SCALE],
    [stiffness |-> 0],
    [fromValue |-> 500, initialVelocity |-> 2] }

\* ... with no listener, one observer of each event, or an onStart listener
\* that calls stop()
ParamRegistries ==
  { <<>>,
    <<Listener("onStart", "record"), Listener("onUpdate", "record"),
      Listener("onStop", "record")>>,
    <<Listener("onStart", "stop"), Listener("onStop", "record")>> }

\* ------------------------------------------------------------------------
\* State
\* ------------------------------------------------------------------------

VARIABLES
  config,                 \* this._config
  listeners,              \* this._listeners
  currentAnimationStep,   \* this._currentAnimationStep (0: none)
  currentTime,            \* this._currentTime
  springTime,             \* this._springTime
  currentValue,           \* this._currentValue
  currentVelocity,        \* this._currentVelocity
  isAnimating,            \* this._isAnimating
  rafQueue,               \* handles of the callbacks the scheduler holds
  now,                    \* Date.now()
  clock,                  \* number of clock advances so far
  updates,                \* number of updateConfig calls the host made so far
  events,                 \* what the last operation did, in order
  last,                   \* the last operation, its argument, the state before
  twin                    \* a second instance run beside this one (<<>>: none)

vars ==
  <<config, listeners, currentAnimationStep, currentTime, springTime,
    currentValue, currentVelocity, isAnimating, rafQueue, now,
    clock, updates, events, last, twin>>

\* The spring and the scheduler as one value, threaded through the methods.
\* threw: an exception is propagating; depth: nesting of listener calls;
\* deep: the nesting went past MaxDepth.
Cur ==
  [config |-> config, listeners |-> listeners,
   currentAnimationStep |-> currentAnimationStep,
   currentTime |-> currentTime, springTime |-> springTime,
   currentValue |-> currentValue, currentVelocity |-> currentVelocity,
   isAnimating |-> isAnimating, rafQueue |-> rafQueue,
   events |-> <<>>, threw |-> FALSE, depth |-> 0, deep |-> FALSE]

\* One entry of the log of an operation.  ev is "fire" (a dispatch of the
\* event name begins), "call" (the listener fn at index idx of the
\* dispatched array is invoked for the event name), "raf" / "caf" (handle h
\* is requested / cancelled) or "stopped" (a stop() that found the spring
\* animating returns); the rest is the state of the spring at that moment.
Event(s, ev, name, fn, idx, h) ==
  [ev |-> ev, name |-> name, fn |-> fn, idx |-> idx, h |-> h,
   value |-> s.currentValue, velocity |-> s.currentVelocity,
   animating |-> s.isAnimating, springTime |-> s.springTime,
   toValue |-> s.config.toValue, depth |-> s.depth,
   listeners |-> s.listeners]

Log(s, ev, name, fn, idx, h) ==
  [s EXCEPT !.events = Append(@, Event(s, ev, name, fn, idx, h))]

\* ------------------------------------------------------------------------
\* Helpers of the class
\* ------------------------------------------------------------------------

withDefault(partial, key, defaultValue) ==
  IF key \in DOMAIN partial THEN partial[key] ELSE defaultValue

\* faulty constructor: toValue defaults to 0, as in the first releases
ConstructorOldDefaults(partial) ==
  [fromValue |-> withDefault(partial, "fromValue", 0),
   toValue |-> withDefault(partial, "toValue", 0),
   stiffness |-> withDefault(partial, "stiffness", 100 * SCALE),
   damping |-> withDefault(partial, "damping", 10 * SCALE),
   mass |-> withDefault(partial, "mass", 1 * SCALE),
   initialVelocity |-> withDefault(partial, "initialVelocity", 0),
   overshootClamping |-> withDefault(partial, "overshootClamping", FALSE),
   allowsOverdamping |-> withDefault(partial, "allowsOverdamping", FALSE),
   restVelocityThreshold |-> withDefault(partial, "restVelocityThreshold", 1),
   restDisplacementThreshold |->
     withDefault(partial, "restDisplacementThreshold", 1)]

\* the config the constructor builds
Constructor(partial) ==
  [fromValue |-> withDefault(partial, "fromValue", 0),
   toValue |-> withDefault(partial, "toValue", 1 * SCALE),
   stiffness |-> withDefault(partial, "stiffness", 100 * SCALE),
   damping |-> withDefault(partial, "damping", 10 * SCALE),
   mass |-> withDefault(partial, "mass", 1 * SCALE),
   initialVelocity |-> withDefault(partial, "initialVelocity", 0),
   overshootClamping |-> withDefault(partial, "overshootClamping", FALSE),
   allowsOverdamping |-> withDefault(partial, "allowsOverdamping", FALSE),
   restVelocityThreshold |-> withDefault(partial, "restVelocityThreshold", 1),
   restDisplacementThreshold |->
     withDefault(partial, "restDisplacementThreshold", 1)]

\* A handle is an opaque positive id that no callback in the queue has and
\* that the spring does not hold: the smallest such id.
FreshHandle(s) ==
  CHOOSE h \in 1..(Cardinality(s.rafQueue) + 2) :
    /\ h \notin s.rafQueue \cup {s.currentAnimationStep}
    /\ \A g \in 1..(h - 1) : g \in s.rafQueue \cup {s.currentAnimationStep}

\* the scheduler takes the callback and answers with the handle h
Schedule(s, h) ==
  [Log(s, "raf", "", "", 0, h) EXCEPT !.rafQueue = @ \cup {h},
                                   !.currentAnimationStep = h]

\* this._currentAnimationStep = requestAnimationFrame(...)
requestAnimationFrame(s) == Schedule(s, FreshHandle(s))

cancelAnimationFrame(s, h) ==
  [Log(s, "caf", "", "", 0, h) EXCEPT !.rafQueue = @ \ {h}]

reset(s) ==
  [s EXCEPT !.currentTime = now,
            !.springTime = 0,
            !.currentValue = s.config.fromValue,
            !.currentVelocity = s.config.initialVelocity]

isSpringOvershooting(s) ==
  IF s.config.overshootClamping /\ s.config.stiffness # 0
  THEN IF s.config.fromValue < s.config.toValue
       THEN s.currentValue > s.config.toValue
       ELSE s.currentValue < s.config.toValue
  ELSE FALSE

isSpringAtRest(s) ==
  /\ s.config.stiffness # 0
  /\ Abs(s.config.toValue - s.currentValue)
       <= s.config.restDisplacementThreshold
  /\ Abs(s.currentVelocity) <= s.config.restVelocityThreshold

\* a getter that reports rest only for a spring that is not animating
isAtRestIdle(s) == ~s.isAnimating /\ isSpringAtRest(s)

\* get isAtRest(): return this._isSpringAtRest()
isAtRest(s) == isSpringAtRest(s)

\* no exception is propagating (and the nesting bound was not passed): the
\* statement after a call runs
Returned(s) == ~s.threw /\ ~s.deep

\* ------------------------------------------------------------------------
\* Methods.  Each takes the state s and returns the state when it returns
\* (or when the exception it raised leaves it).  A method is a chain of
\* operators, one per stretch of its body between two calls; each takes the
\* state the stretch before it left.
\* ------------------------------------------------------------------------

RECURSIVE notifyFrom(_, _, _, _)
RECURSIVE notifyLiveFrom(_, _, _)
RECURSIVE start(_)
RECURSIVE stop(_)
RECURSIVE updateConfig(_, _)

\* onStart(listener) / onUpdate(listener) / onStop(listener):
\* this._listeners.push({ [kind]: listener })
on(s, kind, fn) ==
  [s EXCEPT !.listeners = Append(@, Listener(kind, fn))]

\* removeListener(listenerFn): the reduce keeps the entries that do not
\* hold listenerFn
removeListener(s, fn) ==
  [s EXCEPT !.listeners = SelectSeq(@, LAMBDA l : l.fn # fn)]

\* removeAllListeners(): this._listeners = []
removeAllListeners(s) == [s EXCEPT !.listeners = <<>>]

\* the body of a listener
listenerBody(inside, fn) ==
  CASE fn = "stop" -> stop(inside)
    [] fn = "start" -> start(inside)
    [] fn = "update" -> updateConfig(inside, ListenerPartial)
    [] fn = "add" -> IF Len(inside.listeners) < MaxListeners
                     THEN on(inside, "onUpdate", "g")
                     ELSE inside
    [] fn = "remove" -> removeListener(inside, "g")
    [] fn = "clear" -> removeAllListeners(inside)
    [] OTHER -> inside

\* maybeListenerFn(this)
callListener(s, eventName, fn, i) ==
  IF s.depth >= MaxDepth THEN [s EXCEPT !.deep = TRUE]
  ELSE [listenerBody([Log(s, "call", eventName, fn, i, 0)
                        EXCEPT !.depth = @ + 1], fn)
          EXCEPT !.depth = s.depth]

\* this._listeners.forEach(...): forEach reads the length of the array
\* object once, when it begins, and visits the indexes below it.  push()
\* only appends to that object, past those indexes; removeListener() and
\* removeAllListeners() assign a new array to this._listeners and leave the
\* object being iterated as it was.  So the entries visited are those the
\* registry held when the dispatch began.
notifyFrom(s, array, i, eventName) ==
  IF i > Len(array) \/ ~Returned(s) THEN s
  ELSE IF array[i].kind = eventName
       THEN notifyFrom(callListener(s, eventName, array[i].fn, i),
                       array, i + 1, eventName)
       ELSE notifyFrom(s, array, i + 1, eventName)

\* a dispatch that reads the registry anew at every index
notifyLiveFrom(s, i, eventName) ==
  IF i > Len(s.listeners) \/ ~Returned(s) THEN s
  ELSE IF s.listeners[i].kind = eventName
       THEN notifyLiveFrom(callListener(s, eventName, s.listeners[i].fn, i),
                           i + 1, eventName)
       ELSE notifyLiveFrom(s, i + 1, eventName)

notifyLive(s, eventName) ==
  notifyLiveFrom(Log(s, "fire", eventName, "", 0, 0), 1, eventName)

\* a dispatch that passes over the first entry of the registry
notifySkipsFirst(s, eventName) ==
  notifyFrom(Log(s, "fire", eventName, "", 0, 0), s.listeners, 2, eventName)

notifyListeners(s, eventName) ==
  notifyFrom(Log(s, "fire", eventName, "", 0, 0), s.listeners, 1, eventName)

\* start(), after the onStart dispatch: request the first frame
startRequest(s) == IF Returned(s) THEN requestAnimationFrame(s) ELSE s

\* faulty start(): onStart is dispatched even when a frame is already held
startRefires(s) ==
  IF s.currentAnimationStep = 0
  THEN startRequest(notifyListeners(s, "onStart"))
  ELSE notifyListeners(s, "onStart")

\* start(), after the reset: if (!this._currentAnimationStep) { ... }
startNotify(s) ==
  IF s.currentAnimationStep = 0
  THEN startRequest(notifyListeners(s, "onStart"))
  ELSE s

\* faulty start(): the fromValue/toValue/initialVelocity guard is missing
startNoGuard(s) == startNotify([reset(s) EXCEPT !.isAnimating = TRUE])

start(s) ==
  IF s.config.fromValue # s.config.toValue \/ s.config.initialVelocity # 0
  THEN startNotify([reset(s) EXCEPT !.isAnimating = TRUE])
  ELSE s

\* faulty stop(): the pending frame is left with the scheduler
stopLeavesFrame(s) ==
  IF s.currentAnimationStep # 0
  THEN [s EXCEPT !.currentAnimationStep = 0]
  ELSE s

\* stop(): if (this._currentAnimationStep) { cancelAnimationFrame(...) }
stopCancel(s) ==
  IF s.currentAnimationStep # 0
  THEN [cancelAnimationFrame(s, s.currentAnimationStep)
          EXCEPT !.currentAnimationStep = 0]
  ELSE s

\* faulty stop(): it leaves the spring on its target
stopSettles(s) ==
  IF Returned(s)
  THEN Log([stopCancel(s) EXCEPT !.currentValue = s.config.toValue,
                                 !.currentVelocity = 0],
           "stopped", "", "", 0, 0)
  ELSE s

\* stop(), after the onStop dispatch
stopAfterNotify(s) ==
  IF Returned(s) THEN Log(stopCancel(s), "stopped", "", "", 0, 0) ELSE s

\* faulty stop(): the isAnimating guard is missing
stopNoGuard(s) ==
  stopAfterNotify(notifyListeners([s EXCEPT !.isAnimating = FALSE],
                                  "onStop"))

stop(s) ==
  IF ~s.isAnimating THEN s
  ELSE stopAfterNotify(notifyListeners([s EXCEPT !.isAnimating = FALSE],
                                       "onStop"))

\* a delta that is 0 on the first step after a reset
deltaTimeFirstStep(s, timestamp) ==
  IF s.springTime = 0 THEN 0
  ELSE IF timestamp - s.currentTime > MAX_DELTA_TIME_MS
       THEN MAX_DELTA_TIME_MS
       ELSE timestamp - s.currentTime

\* the time to advance by, at most MAX_DELTA_TIME_MS
deltaTime(s, timestamp) ==
  IF timestamp - s.currentTime > MAX_DELTA_TIME_MS
  THEN MAX_DELTA_TIME_MS
  ELSE timestamp - s.currentTime

\* _advanceSpringToTime(): if (k !== 0) { snap; notify }, with the k and
\* toValue read at the beginning of the method
advanceSnap(s, k, toValue) ==
  IF k # 0
  THEN notifyListeners([s EXCEPT !.currentValue = toValue,
                                 !.currentVelocity = 0], "onUpdate")
  ELSE s

\* _advanceSpringToTime(): this.stop() after the snap
advanceStop(s) == IF Returned(s) THEN stop(s) ELSE s

\* faulty _advanceSpringToTime(): isAnimating is not looked at again after
\* the onUpdate dispatch
advanceNoRecheck(s, k, toValue) ==
  IF ~Returned(s) THEN s
  ELSE IF isSpringOvershooting(s) \/ isSpringAtRest(s)
       THEN advanceStop(advanceSnap(s, k, toValue))
       ELSE s

\* _advanceSpringToTime(), after the onUpdate dispatch
advanceAfterNotify(s, k, toValue) ==
  IF ~Returned(s) \/ ~s.isAnimating THEN s
  ELSE IF isSpringOvershooting(s) \/ isSpringAtRest(s)
       THEN advanceStop(advanceSnap(s, k, toValue))
       ELSE s

\* _advanceSpringToTime(), once the new values are stored
advanceNotify(s, shouldNotifyListeners, k, toValue) ==
  IF ~shouldNotifyListeners THEN s
  ELSE advanceAfterNotify(notifyListeners(s, "onUpdate"), k, toValue)

\* this._currentTime = timestamp; this._currentValue = oscillation; ...
advanceStore(s, timestamp, point) ==
  [s EXCEPT !.currentTime = timestamp,
            !.currentValue = point.value,
            !.currentVelocity = point.velocity]

\* an advance without the invariants: outside the solver's domain the
\* spring keeps its value and velocity and the tick carries on
advanceSolveCoasts(s, timestamp, shouldNotifyListeners) ==
  advanceNotify(
    advanceStore(s, timestamp,
                 IF s.config.mass > 0 /\ s.config.stiffness > 0
                    /\ s.config.damping > 0
                 THEN Solve(s.config, s.springTime)
                 ELSE [value |-> s.currentValue,
                       velocity |-> s.currentVelocity]),
    shouldNotifyListeners, s.config.stiffness, s.config.toValue)

\* _advanceSpringToTime(), once _springTime is advanced: the invariants,
\* then the closed form
advanceSolve(s, timestamp, shouldNotifyListeners) ==
  IF ~(s.config.mass > 0 /\ s.config.stiffness > 0 /\ s.config.damping > 0)
  THEN [s EXCEPT !.threw = TRUE]
  ELSE advanceNotify(
         advanceStore(s, timestamp, Solve(s.config, s.springTime)),
         shouldNotifyListeners, s.config.stiffness, s.config.toValue)

\* faulty _advanceSpringToTime(): it advances a spring that is not
\* animating
advanceIdle(s, timestamp, shouldNotifyListeners) ==
  advanceSolve([s EXCEPT !.springTime = @ + deltaTime(s, timestamp)],
               timestamp, shouldNotifyListeners)

advanceSpringToTime(s, timestamp, shouldNotifyListeners) ==
  IF ~s.isAnimating THEN s
  ELSE advanceSolve([s EXCEPT !.springTime = @ + deltaTime(s, timestamp)],
                    timestamp, shouldNotifyListeners)

\* faulty updateConfig(): fromValue and initialVelocity are not taken from
\* the current value and velocity
mergeKeepsStart(s, updatedConfig) ==
  [key \in DOMAIN s.config |->
     IF key \in DOMAIN updatedConfig THEN updatedConfig[key]
     ELSE s.config[key]]

\* the config updateConfig() installs: the present one, starting from the
\* current value and velocity, overlaid with the keys of updatedConfig
mergeConfig(s, updatedConfig) ==
  [key \in DOMAIN s.config |->
     IF key \in DOMAIN updatedConfig THEN updatedConfig[key]
     ELSE IF key = "fromValue" THEN s.currentValue
     ELSE IF key = "initialVelocity" THEN s.currentVelocity
     ELSE s.config[key]]

\* faulty updateConfig(): it ends with this.start() instead of this._reset()
updateConfigStarts(s, updatedConfig) ==
  IF Returned(s)
  THEN start([s EXCEPT !.config = mergeConfig(s, updatedConfig)])
  ELSE s

\* stop() unless the config asks for a movement
stopIfSettled(s) ==
  IF s.config.fromValue # s.config.toValue \/ s.config.initialVelocity # 0
  THEN s
  ELSE stop(s)

\* faulty updateConfig(): it stops the spring at once when the new config
\* asks for no movement
updateConfigStops(s, updatedConfig) ==
  IF Returned(s)
  THEN stopIfSettled(reset([s EXCEPT !.config =
                              mergeConfig(s, updatedConfig)]))
  ELSE s

\* faulty updateConfig(): the config is built anew from updatedConfig
updateConfigRebuilds(s, updatedConfig) ==
  IF Returned(s)
  THEN reset([s EXCEPT !.config =
                Constructor([key \in DOMAIN updatedConfig \cup
                                    {"fromValue", "initialVelocity"} |->
                               mergeConfig(s, updatedConfig)[key]])])
  ELSE s

\* updateConfig(), after the advance to now
updateConfigApply(s, updatedConfig) ==
  IF Returned(s)
  THEN reset([s EXCEPT !.config = mergeConfig(s, updatedConfig)])
  ELSE s

\* faulty updateConfig(): without the advance to now, the new run starts
\* from the values of the last tick
updateConfigSkipsAdvance(s, updatedConfig) ==
  updateConfigApply(s, updatedConfig)

\* faulty updateConfig(): the advance to now notifies the listeners
updateConfigNotifies(s, updatedConfig) ==
  updateConfigApply(advanceSpringToTime(s, now, TRUE), updatedConfig)

updateConfig(s, updatedConfig) ==
  updateConfigApply(advanceSpringToTime(s, now, FALSE), updatedConfig)

\* faulty _step(): the next frame is requested without looking at
\* isAnimating
stepAlwaysRequests(s) ==
  IF Returned(s) THEN requestAnimationFrame(s) ELSE s

\* faulty _step(): the next frame is never requested
stepDropsFrame(s) == s

\* _step(), after the advance: if (this._isAnimating) { request a frame }
stepRequest(s) ==
  IF Returned(s) /\ s.isAnimating THEN requestAnimationFrame(s) ELSE s

step(s, timestamp) == stepRequest(advanceSpringToTime(s, timestamp, TRUE))

\* ------------------------------------------------------------------------
\* Actions: one per call the host or the scheduler makes
\* ------------------------------------------------------------------------

\* the state the operation op(arg) leaves, r, becomes the next state
Assign(op, arg, r) ==
  /\ ~r.deep
  /\ config' = r.config
  /\ listeners' = r.listeners
  /\ currentAnimationStep' = r.currentAnimationStep
  /\ currentTime' = r.currentTime
  /\ springTime' = r.springTime
  /\ currentValue' = r.currentValue
  /\ currentVelocity' = r.currentVelocity
  /\ isAnimating' = r.isAnimating
  /\ rafQueue' = r.rafQueue
  /\ events' = r.events
  /\ last' = [op |-> op, arg |-> arg, threw |-> r.threw,
              pre |-> [Cur EXCEPT !.events = <<>>]]
  /\ updates' = IF op = "updateConfig" THEN updates + 1 ELSE updates
  /\ UNCHANGED <<now, clock>>

\* an operation on this instance alone
Commit(op, arg, r) == Assign(op, arg, r) /\ UNCHANGED twin

\* the host calls spring.start()
Start == \E r \in {start(Cur)} : Commit("start", 0, r)

\* the host calls spring.stop()
Stop == \E r \in {stop(Cur)} : Commit("stop", 0, r)

\* the host calls spring.updateConfig(p)
UpdateConfig ==
  \E p \in HostPartials :
    /\ updates < MaxUpdates
    /\ \E r \in {updateConfig(Cur, p)} : Commit("updateConfig", p, r)

\* the scheduler runs the callback of handle h: this._step(Date.now())
Tick ==
  \E h \in rafQueue :
    \E r \in {step([Cur EXCEPT !.rafQueue = @ \ {h}], now)} :
      Commit("tick", 0, r)

\* time passes
AdvanceClock ==
  \E d \in ClockSteps :
    /\ clock < MaxClock
    /\ now' = now + d
    /\ clock' = clock + 1
    /\ events' = <<>>
    /\ last' = [op |-> "clock", arg |-> 0, threw |-> FALSE,
                pre |-> [Cur EXCEPT !.events = <<>>]]
    /\ UNCHANGED <<config, listeners, currentAnimationStep, currentTime,
                   springTime, currentValue, currentVelocity, isAnimating,
                   rafQueue, updates, twin>>

\* new Spring(partial), then the on...() calls that build the registry
Built(partial, registry) ==
  /\ config = Constructor(partial)
  /\ listeners = registry
  /\ currentAnimationStep = 0
  /\ currentTime = 0
  /\ springTime = 0
  /\ currentValue = config.fromValue
  /\ currentVelocity = config.initialVelocity
  /\ isAnimating = FALSE
  /\ rafQueue = {}
  /\ now = StartTime
  /\ clock = 0
  /\ updates = 0
  /\ events = <<>>
  /\ last = [op |-> "new", arg |-> partial, threw |-> FALSE,
             pre |-> [Cur EXCEPT !.events = <<>>]]

\* one instance, run alone
Construct(partial, registry) == Built(partial, registry) /\ twin = <<>>

Init ==
  \E partial \in CtorPartials : \E registry \in Registries :
    Construct(partial, registry)

Next ==
  \/ Start
  \/ Stop
  \/ UpdateConfig
  \/ Tick
  \/ AdvanceClock

Spec == Init /\ [][Next]_vars

\* The runs that exercise the physical parameters

InitParams ==
  \E partial \in ParamCtorPartials : \E registry \in ParamRegistries :
    Construct(partial, registry)

\* the host calls spring.updateConfig(p)
UpdateConfigParams ==
  \E p \in ParamPartials :
    /\ updates < MaxUpdates
    /\ \E r \in {updateConfig(Cur, p)} : Commit("updateConfig", p, r)

NextParams ==
  \/ Start
  \/ Stop
  \/ UpdateConfigParams
  \/ Tick
  \/ AdvanceClock

SpecParams == InitParams /\ [][NextParams]_vars

\* Two instances built from the same config and driven by the same frames:
\* the host calls updateConfig({}) on this one only.  twin.run is the other
\* instance; twin.offset is the spring time this instance had accumulated
\* when its updateConfig calls reset it; twin.ticked: the last frame reached
\* the other instance too; twin.clamped: a frame of the other instance came
\* more than MAX_DELTA_TIME_MS after its previous one; twin.flipped: an
\* updateConfig found this instance on the far side of toValue.

\* a slow under-damped spring, and a fast one with overshootClamping
TwinPartials ==
  { [toValue |-> 100 * SCALE, stiffness |-> 2500 * SCALE,
     damping |-> 20 * SCALE],
    [toValue |-> 100 * SCALE, stiffness |-> 10000 * SCALE,
     damping |-> 100 * SCALE, overshootClamping |-> TRUE] }

\* the state an operation leaves on the other instance
Kept(r) == [r EXCEPT !.events = <<>>, !.threw = FALSE]

InitTwin ==
  \E partial \in TwinPartials :
    /\ Built(partial, <<>>)
    /\ twin = [run |-> Cur, offset |-> 0, ticked |-> FALSE,
               clamped |-> FALSE, flipped |-> FALSE]

\* the host calls start() on both instances
StartTwin ==
  /\ last.op = "new"
  /\ \E r \in {start(Cur)} : Assign("start", 0, r)
  /\ twin' = [twin EXCEPT !.run = Kept(start(twin.run))]

\* the sign of toValue - v
Side(cfg, v) == Sgn(cfg.toValue - v)

\* the host calls updateConfig({}) on this instance
UpdateConfigTwin ==
  /\ updates < MaxUpdates
  /\ isAnimating
  /\ \E r \in {updateConfig(Cur, EmptyPartial)} :
       /\ Assign("updateConfig", EmptyPartial, r)
       /\ twin' =
            [twin EXCEPT
               !.offset = @ + advanceSpringToTime(Cur, now, FALSE).springTime,
               !.ticked = FALSE,
               !.flipped = @ \/ Side(r.config, r.config.fromValue)
                                  # Side(config, config.fromValue)]

\* the frame of the other instance, if it has one pending
stepTwin(s, timestamp) ==
  IF s.rafQueue = {} THEN s
  ELSE Kept(step([s EXCEPT !.rafQueue = {}], timestamp))

\* the scheduler runs the frame both instances requested
TickTwin ==
  /\ \E h \in rafQueue :
       \E r \in {step([Cur EXCEPT !.rafQueue = @ \ {h}], now)} :
         Assign("tick", 0, r)
  /\ twin' =
       [twin EXCEPT
          !.run = stepTwin(twin.run, now),
          !.ticked = twin.run.rafQueue # {},
          !.clamped = @ \/ (twin.run.rafQueue # {}
                            /\ now - twin.run.currentTime
                                 > MAX_DELTA_TIME_MS)]

NextTwin ==
  \/ StartTwin
  \/ UpdateConfigTwin
  \/ TickTwin
  \/ AdvanceClock

SpecTwin == InitTwin /\ [][NextTwin]_vars

\* The runs that exercise the listener registry: the host registers and
\* removes observers at any moment of the life of one spring.

EventNames == {"onStart", "onUpdate", "onStop"}

\* the callbacks the host holds: two observers
Callbacks == {"f", "g"}

InitRegistry ==
  Construct([stiffness |-> 10000 * SCALE, damping |-> 200 * SCALE,
             restVelocityThreshold |-> 10, restDisplacementThreshold |-> 10],
            <<>>)

\* the host calls spring.onStart(fn), spring.onUpdate(fn) or
\* spring.onStop(fn)
On ==
  \E kind \in EventNames : \E fn \in Callbacks :
    /\ Len(listeners) < MaxListeners
    /\ \E r \in {on(Cur, kind, fn)} : Commit("on", Listener(kind, fn), r)

\* the host calls spring.removeListener(fn)
RemoveListener ==
  \E fn \in Callbacks :
    \E r \in {removeListener(Cur, fn)} : Commit("removeListener", fn, r)

\* the host calls spring.removeAllListeners()
RemoveAllListeners ==
  \E r \in {removeAllListeners(Cur)} : Commit("removeAllListeners", 0, r)

NextRegistry ==
  \/ On
  \/ RemoveListener
  \/ RemoveAllListeners
  \/ Start
  \/ Stop
  \/ Tick

SpecRegistry == InitRegistry /\ [][NextRegistry]_vars

\* The runs that exercise the overshoot test: springs with and without
\* overshootClamping that go up, go down, or leave and come back to the
\* value they start from.

OvershootPartials ==
  { [stiffness |-> 10000 * SCALE, damping |-> 100 * SCALE,
     overshootClamping |-> TRUE,
     restVelocityThreshold |-> 10, restDisplacementThreshold |-> 20],
    [fromValue |-> SCALE, toValue |-> 0,
     stiffness |-> 10000 * SCALE, damping |-> 100 * SCALE,
     overshootClamping |-> TRUE,
     restVelocityThreshold |-> 10, restDisplacementThreshold |-> 20],
    [fromValue |-> SCALE, toValue |-> SCALE, initialVelocity |-> 50,
     stiffness |-> 10000 * SCALE, damping |-> 100 * SCALE,
     overshootClamping |-> TRUE,
     restVelocityThreshold |-> 10, restDisplacementThreshold |-> 20],
    [fromValue |-> SCALE, toValue |-> SCALE, initialVelocity |-> 0 - 50,
     stiffness |-> 10000 * SCALE, damping |-> 100 * SCALE,
     overshootClamping |-> TRUE,
     restVelocityThreshold |-> 10, restDisplacementThreshold |-> 20],
    [fromValue |-> SCALE, toValue |-> SCALE, initialVelocity |-> 0 - 50,
     stiffness |-> 10000 * SCALE, damping |-> 100 * SCALE,
     restVelocityThreshold |-> 10, restDisplacementThreshold |-> 20] }

InitOvershoot ==
  \E partial \in OvershootPartials :
    Construct(partial, <<Listener("onUpdate", "record"),
                         Listener("onStop", "record")>>)

NextOvershoot ==
  \/ Start
  \/ Stop
  \/ Tick
  \/ AdvanceClock

SpecOvershoot == InitOvershoot /\ [][NextOvershoot]_vars

\* One run from start() to its end: the host calls start() once and may
\* call stop(); the scheduler delivers every frame that was requested, at a
\* later time than the one before.  twin.stops counts the onStop dispatches.

InitLive ==
  \E partial \in CtorPartials :
    /\ Built(partial, <<Listener("onStop", "record")>>)
    /\ twin = [stops |-> 0]

\* the dispatches of onStop in the log of r are added to the count
Tally(r) ==
  twin' = [twin EXCEPT !.stops =
             @ + Cardinality({i \in DOMAIN r.events :
                                r.events[i].ev = "fire"
                                /\ r.events[i].name = "onStop"})]

StartLive ==
  /\ last.op = "new"
  /\ \E r \in {start(Cur)} : Assign("start", 0, r) /\ Tally(r)

StopLive ==
  \E r \in {stop(Cur)} : Assign("stop", 0, r) /\ Tally(r)

TickLive ==
  \E h \in rafQueue :
    \E r \in {step([Cur EXCEPT !.rafQueue = @ \ {h}], now)} :
      Assign("tick", 0, r) /\ Tally(r)

\* time passes between two frames of a running spring
Elapse ==
  \E d \in ClockSteps :
    /\ isAnimating
    /\ last.op \in {"start", "tick"}
    /\ now' = now + d
    /\ events' = <<>>
    /\ last' = [op |-> "clock", arg |-> 0, threw |-> FALSE,
                pre |-> [Cur EXCEPT !.events = <<>>]]
    /\ UNCHANGED <<config, listeners, currentAnimationStep, currentTime,
                   springTime, currentValue, currentVelocity, isAnimating,
                   rafQueue, updates, clock, twin>>

NextLive ==
  \/ StartLive
  \/ StopLive
  \/ TickLive
  \/ Elapse

\* The scheduler runs every frame that was requested: weak fairness of
\* TickLive, written with its enabling condition (a frame is pending).
TickFair == []<>(rafQueue = {}) \/ []<><<TickLive>>_vars

\* ... and time does not stand still between the frames of a running spring
SpecLive == InitLive /\ [][NextLive]_vars /\ TickFair /\ WF_vars(Elapse)

\* The runs whose listeners change the registry while it is dispatched: an
\* onUpdate listener that registers g; one that removes g, registered after
\* it; one that removes g, registered before it; one that empties the
\* registry.

SnapshotRegistries ==
  { <<Listener("onUpdate", "add"), Listener("onUpdate", "f")>>,
    <<Listener("onUpdate", "remove"), Listener("onUpdate", "g"),
      Listener("onUpdate", "f")>>,
    <<Listener("onUpdate", "g"), Listener("onUpdate", "remove"),
      Listener("onUpdate", "f")>>,
    <<Listener("onUpdate", "clear"), Listener("onUpdate", "f"),
      Listener("onStop", "f")>> }

InitSnapshot ==
  \E partial \in CtorPartials : \E registry \in SnapshotRegistries :
    Construct(partial, registry)

NextSnapshot ==
  \/ Start
  \/ Stop
  \/ Tick
  \/ AdvanceClock

SpecSnapshot == InitSnapshot /\ [][NextSnapshot]_vars

\* The runs that exercise the three regimes of the solver: damping ratios
\* 0.5, 1 and 2, each with and without allowsOverdamping.

SolverPartials ==
  { [stiffness |-> 10000 * SCALE, damping |-> c * SCALE,
     allowsOverdamping |-> o,
     restVelocityThreshold |-> 10, restDisplacementThreshold |-> 10] :
      c \in {100, 200, 400}, o \in BOOLEAN }

InitSolver ==
  \E partial \in SolverPartials :
    Construct(partial, <<Listener("onUpdate", "record")>>)

NextSolver ==
  \/ Start
  \/ Stop
  \/ Tick
  \/ AdvanceClock

SpecSolver == InitSolver /\ [][NextSolver]_vars

\* The runs whose listeners call start() and stop(): an onUpdate listener
\* that stops the spring followed by one that starts it again, and an
\* onStop listener that starts it again.  twin watches the dispatches of
\* the whole execution: open tells that onStart was dispatched and onStop
\* not yet since; paired, that every onUpdate and onStop dispatch so far
\* began while open.

ReentrantRegistries ==
  { <<Listener("onUpdate", "stop"), Listener("onUpdate", "start"),
      Listener("onStart", "f"), Listener("onStop", "f")>>,
    <<Listener("onStart", "f"), Listener("onUpdate", "f"),
      Listener("onStop", "start")>> }

InitReentrant ==
  \E partial \in CtorPartials : \E registry \in ReentrantRegistries :
    /\ Built(partial, registry)
    /\ twin = [open |-> FALSE, paired |-> TRUE]

\* the watch after the log entry e
Watched(m, e) ==
  IF e.ev # "fire" THEN m
  ELSE IF e.name = "onStart" THEN [m EXCEPT !.open = TRUE]
  ELSE IF e.name = "onStop"
       THEN [open |-> FALSE, paired |-> m.paired /\ m.open]
       ELSE [m EXCEPT !.paired = @ /\ m.open]

RECURSIVE Watch(_, _, _)
Watch(m, log, i) ==
  IF i > Len(log) THEN m ELSE Watch(Watched(m, log[i]), log, i + 1)

StartReentrant ==
  \E r \in {start(Cur)} :
    Assign("start", 0, r) /\ twin' = Watch(twin, r.events, 1)

StopReentrant ==
  \E r \in {stop(Cur)} :
    Assign("stop", 0, r) /\ twin' = Watch(twin, r.events, 1)

TickReentrant ==
  /\ Cardinality(rafQueue) <= MaxFrames
  /\ \E h \in rafQueue :
       \E r \in {step([Cur EXCEPT !.rafQueue = @ \ {h}], now)} :
         Assign("tick", 0, r) /\ twin' = Watch(twin, r.events, 1)

NextReentrant ==
  \/ StartReentrant
  \/ StopReentrant
  \/ TickReentrant
  \/ AdvanceClock

SpecReentrant == InitReentrant /\ [][NextReentrant]_vars

\* ------------------------------------------------------------------------
\* Properties
\* ------------------------------------------------------------------------

Pre == last.pre

\* positions in the log of the last operation
Fires(name) ==
  {i \in DOMAIN events : events[i].ev = "fire" /\ events[i].name = name}

Calls(name) ==
  {i \in DOMAIN events : events[i].ev = "call" /\ events[i].name = name}

Requests == {i \in DOMAIN events : events[i].ev = "raf"}

Stopped == {i \in DOMAIN events : events[i].ev = "stopped"}

\* the dispatches of the last operation, in order
FireSeq == SelectSeq(events, LAMBDA e : e.ev = "fire")

\* every listener of the array for the event name was invoked exactly once
EachCalledOnce(array, name) ==
  \A j \in DOMAIN array :
    array[j].kind = name =>
      Cardinality({i \in Calls(name) : events[i].idx = j}) = 1

\* the spring and the scheduler are as they were before the last operation
Unchanged ==
  /\ config = Pre.config
  /\ listeners = Pre.listeners
  /\ currentAnimationStep = Pre.currentAnimationStep
  /\ currentTime = Pre.currentTime
  /\ springTime = Pre.springTime
  /\ currentValue = Pre.currentValue
  /\ currentVelocity = Pre.currentVelocity
  /\ isAnimating = Pre.isAnimating
  /\ rafQueue = Pre.rafQueue

Moves(cfg) == cfg.fromValue # cfg.toValue \/ cfg.initialVelocity # 0

\* the last operation was a tick that itself ended the run (rest or
\* overshoot): it dispatched onStop outside every listener
NaturalEnd ==
  /\ last.op = "tick"
  /\ \E i \in Fires("onStop") : events[i].depth = 0

\* C1: start() on a spring that is not animating and has no tick scheduled,
\* with fromValue # toValue or initialVelocity # 0, resets springTime,
\* currentValue and currentVelocity and sets isAnimating (as the onStart
\* dispatch sees them), invokes every onStart listener exactly once before
\* it returns, dispatches no onUpdate, and then requests exactly one tick.
C1_StartBeginsRun ==
  (/\ last.op = "start"
   /\ ~Pre.isAnimating
   /\ Pre.rafQueue = {}
   /\ Moves(Pre.config))
  => /\ events # <<>>
     /\ events[1].ev = "fire"
     /\ events[1].name = "onStart"
     /\ events[1].springTime = 0
     /\ events[1].value = Pre.config.fromValue
     /\ events[1].velocity = Pre.config.initialVelocity
     /\ events[1].animating
     /\ Cardinality(Fires("onStart")) = 1
     /\ EachCalledOnce(Pre.listeners, "onStart")
     /\ Fires("onUpdate") = {}
     /\ Cardinality(Requests) = 1
     /\ events[Len(events)].ev = "raf"
     /\ Cardinality(rafQueue) = 1

\* C2 as stated: start() with fromValue = toValue and initialVelocity = 0
\* dispatches nothing, requests no tick, changes nothing and leaves
\* isAnimating false.
C2_Original ==
  (last.op = "start" /\ ~Moves(Pre.config))
  => (events = <<>> /\ Unchanged /\ ~isAnimating)

\* C2: start() with fromValue = toValue and initialVelocity = 0 dispatches
\* nothing, requests no tick and changes nothing: isAnimating keeps its
\* value, which is false unless the spring was animating at the call.
C2_NoOpStart ==
  (last.op = "start" /\ ~Moves(Pre.config))
  => (events = <<>> /\ Unchanged /\ (~Pre.isAnimating => ~isAnimating))

C2_Witness ==
  /\ last.op = "start"
  /\ ~Moves(config)
  /\ ~isAnimating
  /\ clock > 0

\* C3 as stated: start() while animating with a tick scheduled is a no-op.
C3_Original ==
  (last.op = "start" /\ Pre.isAnimating /\ Pre.rafQueue # {})
  => (events = <<>> /\ Unchanged)

\* C3: start() while animating with a tick scheduled dispatches no onStart
\* and requests no second tick; config, listeners, handle, queue and
\* isAnimating keep their values.  If fromValue # toValue or
\* initialVelocity # 0 it restarts the trajectory (springTime = 0,
\* currentTime = now, currentValue = fromValue, currentVelocity =
\* initialVelocity); otherwise nothing changes.
C3_RestartKeepsTick ==
  (last.op = "start" /\ Pre.isAnimating /\ Pre.rafQueue # {})
  => /\ events = <<>>
     /\ config = Pre.config
     /\ listeners = Pre.listeners
     /\ currentAnimationStep = Pre.currentAnimationStep
     /\ rafQueue = Pre.rafQueue
     /\ isAnimating
     /\ IF Moves(Pre.config)
        THEN /\ springTime = 0
             /\ currentTime = now
             /\ currentValue = config.fromValue
             /\ currentVelocity = config.initialVelocity
        ELSE Unchanged

C3_Witness ==
  /\ last.op = "start"
  /\ Pre.isAnimating
  /\ Pre.rafQueue # {}
  /\ Pre.springTime > 0
  /\ springTime = 0
  /\ currentValue # Pre.currentValue

\* C4: stop() on an animating spring clears isAnimating, leaves no tick
\* pending and no handle stored, dispatches onStop once and invokes every
\* onStop listener exactly once before it returns; it does not touch
\* currentValue and currentVelocity, so the listeners and the host see the
\* last computed values.
C4_StopEndsRun ==
  (last.op = "stop" /\ Pre.isAnimating)
  => /\ ~isAnimating
     /\ rafQueue = {}
     /\ currentAnimationStep = 0
     /\ Cardinality(Fires("onStop")) = 1
     /\ EachCalledOnce(Pre.listeners, "onStop")
     /\ events[Len(events)].ev = "stopped"
     /\ currentValue = Pre.currentValue
     /\ currentVelocity = Pre.currentVelocity
     /\ \A i \in Fires("onStop") \cup Calls("onStop") :
          /\ events[i].value = Pre.currentValue
          /\ events[i].velocity = Pre.currentVelocity
          /\ ~events[i].animating

C4_Witness ==
  /\ last.op = "stop"
  /\ Pre.isAnimating
  /\ Pre.rafQueue # {}
  /\ Calls("onStop") # {}
  /\ currentValue # config.toValue
  /\ currentVelocity # 0

\* after the stop() that returned at position i, and before a later onStart
\* dispatch, position j
SameRunAfter(i, j) ==
  /\ j > i
  /\ ~\E k \in Fires("onStart") : i < k /\ k < j

\* C5 as stated: once stop() has returned no onUpdate or onStop listener is
\* invoked again for that run.
C5_Original ==
  /\ \A i \in Stopped : \A j \in Calls("onUpdate") \cup Calls("onStop") :
       ~SameRunAfter(i, j)
  /\ (~Pre.isAnimating /\ last.op \in {"tick", "stop", "updateConfig"})
       => Calls("onUpdate") \cup Calls("onStop") = {}

\* C5: once stop() has returned no onUpdate or onStop dispatch begins for
\* that run, whether the host called stop() or an onUpdate listener did; the
\* onUpdate dispatch inside which a listener called stop() still runs to
\* its end, so the listeners registered after that one are invoked.
C5_NoDispatchAfterStop ==
  /\ \A i \in Stopped : \A j \in Fires("onUpdate") \cup Fires("onStop") :
       ~SameRunAfter(i, j)
  /\ (~Pre.isAnimating /\ last.op \in {"tick", "stop", "updateConfig"})
       => Fires("onUpdate") \cup Fires("onStop") = {}

C5_Witness ==
  /\ last.op = "tick"
  /\ \E i \in Stopped :
       /\ events[i].depth = 1
       /\ \E j \in Calls("onUpdate") : j > i

\* C6: stop() on a spring that is not animating dispatches nothing, cancels
\* and requests nothing and changes nothing; a stop() always leaves the
\* spring not animating after at most one onStop dispatch, so the second of
\* two consecutive stop() calls dispatches none.
C6_StopIdle ==
  /\ (last.op = "stop" /\ ~Pre.isAnimating) => (events = <<>> /\ Unchanged)
  /\ last.op = "stop" =>
       (~isAnimating /\ Cardinality(Fires("onStop")) <= 1)

C6_Witness ==
  /\ last.op = "stop"
  /\ ~Pre.isAnimating
  /\ Pre.springTime > 0
  /\ Pre.currentValue # Pre.config.toValue

\* C7 as stated: when a tick ends the run by rest or overshoot, currentValue is
\* exactly toValue and currentVelocity exactly 0 in the last onUpdate
\* dispatch, in what the onStop listeners see and in the state afterwards,
\* also for a toValue that updateConfig changed mid-run.
C7_Endpoint ==
  NaturalEnd
  => /\ currentValue = config.toValue
     /\ currentVelocity = 0
     /\ \A i \in Fires("onStop") \cup Calls("onStop") :
          events[i].value = config.toValue /\ events[i].velocity = 0
     /\ \E i \in Fires("onUpdate") :
          /\ \A j \in Fires("onUpdate") : j <= i
          /\ events[i].value = config.toValue
          /\ events[i].velocity = 0

\* C8: a tick that detects rest or overshoot dispatches onUpdate with the
\* solver's value, then onUpdate with the snapped values (the toValue the
\* tick read, velocity 0), then onStop; after it isAnimating is false and no
\* tick is requested or pending.
C8_TerminalOrder ==
  NaturalEnd
  => /\ Len(FireSeq) = 3
     /\ FireSeq[1].name = "onUpdate"
     /\ FireSeq[1].value = Solve(Pre.config, FireSeq[1].springTime).value
     /\ FireSeq[1].velocity =
          Solve(Pre.config, FireSeq[1].springTime).velocity
     /\ FireSeq[2].name = "onUpdate"
     /\ FireSeq[2].value = Pre.config.toValue
     /\ FireSeq[2].velocity = 0
     /\ FireSeq[3].name = "onStop"
     /\ ~isAnimating
     /\ Requests = {}
     /\ rafQueue = {}

C8_Witness ==
  /\ NaturalEnd
  /\ config.overshootClamping
  /\ Len(FireSeq) = 3
  /\ FireSeq[1].value > config.toValue
  /\ Calls("onUpdate") # {}

\* C9: a tick of an animating spring dispatches onUpdate exactly once, plus
\* exactly once more if it ends the run, however many updateConfig calls
\* came before it; start() and updateConfig() dispatch no onUpdate.
C9_OncePerTick ==
  /\ (last.op = "tick" /\ Pre.isAnimating)
       => Cardinality(Fires("onUpdate")) = IF NaturalEnd THEN 2 ELSE 1
  /\ last.op \in {"start", "updateConfig"} => Fires("onUpdate") = {}

C9_Witness ==
  /\ last.op = "tick"
  /\ Pre.isAnimating
  /\ updates = 2
  /\ clock = 0
  /\ Pre.springTime = 0
  /\ Cardinality(Fires("onUpdate")) = 1

\* C10: updateConfig dispatches no event and invokes no listener, requests
\* and cancels no tick, and leaves isAnimating as it was.
C10_UpdateConfigSilent ==
  last.op = "updateConfig"
  => /\ events = <<>>
     /\ rafQueue = Pre.rafQueue
     /\ currentAnimationStep = Pre.currentAnimationStep
     /\ isAnimating = Pre.isAnimating
     /\ listeners = Pre.listeners

C10_Witness ==
  /\ last.op = "updateConfig"
  /\ isAnimating
  /\ now > Pre.currentTime
  /\ currentValue # Pre.currentValue

\* the time the advance inside the last operation moved the spring by
Elapsed ==
  IF now - Pre.currentTime > MAX_DELTA_TIME_MS
  THEN MAX_DELTA_TIME_MS
  ELSE now - Pre.currentTime

\* the value and velocity of the spring when the last operation was called:
\* on the trajectory at now if it was animating, else the last known ones
Seed ==
  IF Pre.isAnimating
  THEN Solve(Pre.config, Pre.springTime + Elapsed)
  ELSE [value |-> Pre.currentValue, velocity |-> Pre.currentVelocity]

\* the keys a partial config leaves out
Omitted(partial) == DOMAIN config \ DOMAIN partial

\* C11: after an updateConfig(partial) that returned, config.fromValue is
\* partial.fromValue if supplied and otherwise the spring's current value at
\* the call (advanced to now if animating, the last known value if not),
\* config.initialVelocity likewise with the current velocity, springTime is
\* 0, currentValue = config.fromValue and currentVelocity =
\* config.initialVelocity.
C11_UpdateSeeds ==
  (last.op = "updateConfig" /\ ~last.threw)
  => /\ config.fromValue =
          IF "fromValue" \in DOMAIN last.arg
          THEN last.arg.fromValue ELSE Seed.value
     /\ config.initialVelocity =
          IF "initialVelocity" \in DOMAIN last.arg
          THEN last.arg.initialVelocity ELSE Seed.velocity
     /\ springTime = 0
     /\ currentValue = config.fromValue
     /\ currentVelocity = config.initialVelocity

C11_Witness ==
  /\ last.op = "updateConfig"
  /\ ~last.threw
  /\ Pre.isAnimating
  /\ Pre.springTime > 0
  /\ now > Pre.currentTime
  /\ "fromValue" \notin DOMAIN last.arg
  /\ config.fromValue # Pre.config.fromValue
  /\ config.fromValue # Pre.currentValue
  /\ config.initialVelocity # 0

\* C12: updateConfig(partial) leaves every config field other than
\* fromValue and initialVelocity that partial does not name as it was.
C12_UpdateReuses ==
  last.op = "updateConfig"
  => \A key \in Omitted(last.arg) \ {"fromValue", "initialVelocity"} :
       config[key] = Pre.config[key]

C12_Witness ==
  /\ last.op = "updateConfig"
  /\ ~last.threw
  /\ last.arg = [stiffness |-> 0]
  /\ config.damping = 0 - 5 * SCALE
  /\ config.stiffness # Pre.config.stiffness

\* the defaults of the config fields
Defaults ==
  [fromValue |-> 0, toValue |-> SCALE, stiffness |-> 100 * SCALE,
   damping |-> 10 * SCALE, mass |-> SCALE, initialVelocity |-> 0,
   allowsOverdamping |-> FALSE, overshootClamping |-> FALSE,
   restVelocityThreshold |-> SCALE \div 1000,
   restDisplacementThreshold |-> SCALE \div 1000]

\* C13 as stated: a field omitted from the partial passed to the
\* constructor or to updateConfig takes its default.
C13_Original ==
  (last.op \in {"new", "updateConfig"} /\ ~last.threw)
  => \A key \in Omitted(last.arg) : config[key] = Defaults[key]

\* C13: a field omitted from the partial passed to the constructor takes
\* its default; a field omitted from the partial passed to updateConfig
\* keeps the value the config had (fromValue and initialVelocity are taken
\* from the current value and velocity instead).
C13_DefaultsAtConstruction ==
  /\ last.op = "new"
       => \A key \in DOMAIN config :
            config[key] = IF key \in DOMAIN last.arg
                          THEN last.arg[key] ELSE Defaults[key]
  /\ (last.op = "updateConfig" /\ ~last.threw)
       => \A key \in Omitted(last.arg) :
            config[key] = CASE key = "fromValue" -> currentValue
                            [] key = "initialVelocity" -> currentVelocity
                            [] OTHER -> Pre.config[key]

C13_Witness ==
  /\ last.op = "updateConfig"
  /\ ~last.threw
  /\ "mass" \in Omitted(last.arg)
  /\ config.mass = 0
  /\ config.mass # Defaults.mass

\* C15: an updateConfig that makes fromValue equal toValue with
\* initialVelocity 0 while the spring is animating dispatches no onStop and
\* leaves the spring animating; the next tick (if no listener reconfigures
\* the spring during it) dispatches onStop and ends the run.
C15_StopsAtNextTick ==
  /\ (last.op = "updateConfig" /\ Pre.isAnimating /\ ~Moves(config))
       => (Fires("onStop") = {} /\ isAnimating)
  /\ (last.op = "tick" /\ Pre.isAnimating /\ ~Moves(Pre.config)
      /\ config = Pre.config)
       => (Cardinality(Fires("onStop")) = 1 /\ ~isAnimating)

C15_Witness ==
  /\ last.op = "tick"
  /\ Pre.isAnimating
  /\ ~Moves(Pre.config)
  /\ Pre.config.toValue = SCALE
  /\ NaturalEnd
  /\ Calls("onStop") # {}
  /\ currentValue = SCALE

\* v is not past the target of cfg, seen from where the spring started
NotPast(cfg, v) ==
  /\ cfg.fromValue < cfg.toValue => v <= cfg.toValue
  /\ cfg.fromValue > cfg.toValue => v >= cfg.toValue

\* C16 as stated: with overshootClamping and stiffness # 0 the value is
\* never past toValue, neither when an onUpdate listener is invoked nor
\* after a tick or an updateConfig.
C16_NoOvershoot ==
  /\ (last.op \in {"tick", "updateConfig"}
      /\ config.overshootClamping /\ config.stiffness # 0)
       => NotPast(config, currentValue)
  /\ (last.op = "tick"
      /\ Pre.config.overshootClamping /\ Pre.config.stiffness # 0)
       => \A i \in Calls("onUpdate") :
            events[i].toValue = Pre.config.toValue
              => NotPast(Pre.config, events[i].value)

\* the physical parameters the solver accepts
Valid(cfg) == cfg.mass > 0 /\ cfg.stiffness > 0 /\ cfg.damping > 0

\* C17 for the ticks that find the spring animating: with mass, stiffness
\* or damping <= 0 the tick raises an error to its caller, dispatches
\* neither onUpdate nor onStop, and requests no further tick.
C17_InvalidTickRaises ==
  (last.op = "tick" /\ Pre.isAnimating /\ ~Valid(Pre.config))
  => /\ last.threw
     /\ Fires("onUpdate") = {}
     /\ Fires("onStop") = {}
     /\ Requests = {}
     /\ rafQueue = Pre.rafQueue \ {Pre.currentAnimationStep}

\* C17 as stated: every tick processed while mass, stiffness or damping is
\* <= 0 raises, dispatches neither onUpdate nor onStop and requests no tick.
C17_Original ==
  (last.op = "tick" /\ ~Valid(Pre.config))
  => /\ last.threw
     /\ Fires("onUpdate") = {}
     /\ Fires("onStop") = {}
     /\ Requests = {}

\* C18 as stated: when a tick raises, springTime, the last tick timestamp,
\* currentValue, currentVelocity, isAnimating, the config and the listener
\* registry are as they were before the tick; only the pending tick is gone.
C18_RaiseLeavesState ==
  (last.op = "tick" /\ last.threw)
  => /\ springTime = Pre.springTime
     /\ currentTime = Pre.currentTime
     /\ currentValue = Pre.currentValue
     /\ currentVelocity = Pre.currentVelocity
     /\ isAnimating = Pre.isAnimating
     /\ config = Pre.config
     /\ listeners = Pre.listeners

\* C19 as stated: constructing a Spring, start(), stop() and updateConfig()
\* never raise, whatever the physical parameters.
C19_RaisedOnlyByTicks ==
  last.op \in {"new", "start", "stop", "updateConfig"} => ~last.threw

\* C20 as stated: a tick of a started spring with stiffness = 0 dispatches
\* onUpdate and requests another tick, and the run goes on.
C20_Original ==
  (last.op = "tick" /\ Pre.isAnimating /\ Pre.config.stiffness = 0)
  => /\ Fires("onUpdate") # {}
     /\ Requests # {}
     /\ isAnimating

\* C20, amended: stiffness = 0 is outside the solver's domain.  The tick
\* that finds a spring with stiffness = 0 animating raises: it dispatches
\* no onUpdate and no onStop and requests no tick, so no tick is pending
\* afterwards although isAnimating is still true.
C20_ZeroStiffnessRaises ==
  (last.op = "tick" /\ Pre.isAnimating /\ Pre.config.stiffness = 0)
  => /\ last.threw
     /\ Fires("onUpdate") = {}
     /\ Fires("onStop") = {}
     /\ Requests = {}
     /\ rafQueue = {}
     /\ isAnimating

C20_Witness ==
  /\ last.op = "tick"
  /\ Pre.isAnimating
  /\ Pre.config.stiffness = 0
  /\ Pre.config.mass > 0
  /\ Pre.config.damping > 0
  /\ Moves(Pre.config)
  /\ \E j \in DOMAIN Pre.listeners : Pre.listeners[j].kind = "onUpdate"
  /\ last.threw
  /\ events = <<>>
  /\ rafQueue = {}
  /\ isAnimating

\* two readings agree within the tolerance of the comparison
Tolerance == 2 * SCALE

Close(a, b) == Abs(a - b) <= Tolerance

\* both instances have run the same frames, this one with an
\* updateConfig({}) in between
AfterUpdate ==
  /\ last.op = "tick"
  /\ updates > 0
  /\ twin.ticked

\* both instances report the same thing
SameReport ==
  /\ Close(currentValue, twin.run.currentValue)
  /\ Close(currentVelocity, twin.run.currentVelocity)
  /\ isAnimating = twin.run.isAnimating
  /\ springTime + twin.offset = twin.run.springTime

removeFirst(array, fn) ==
  IF \E i \in DOMAIN array : array[i].fn = fn
  THEN [i \in 1..(Len(array) - 1) |->
          IF \A j \in 1..i : array[j].fn # fn THEN array[i]
          ELSE array[i + 1]]
  ELSE array

\* C21 as stated: removeListener(fn) removes the first entry whose callback
\* is fn and no other, keeping the order of the rest; without such an entry
\* the registry is unchanged.
C21_RemovesOne ==
  last.op = "removeListener"
  => listeners = removeFirst(Pre.listeners, last.arg)

\* a dispatch logged after position p that is not nested in the one of p
Later(p, q) ==
  q > p /\ events[q].ev = "fire" /\ events[q].depth <= events[p].depth

\* the position of the next such dispatch, or the end of the log
NextFire(p) ==
  IF \E q \in DOMAIN events : Later(p, q)
  THEN CHOOSE q \in DOMAIN events :
         Later(p, q) /\ \A q2 \in (p + 1)..(q - 1) : ~Later(p, q2)
  ELSE Len(events) + 1

\* the listener calls of the dispatch logged at position p
CallsOf(p) ==
  SelectSeq(SubSeq(events, p + 1, NextFire(p) - 1),
            LAMBDA e : e.ev = "call" /\ e.depth = events[p].depth)

\* the calls cs are those of the entries of array for the event name, each
\* once, in the order of the array
InOrder(cs, array, name) ==
  /\ {cs[i].idx : i \in DOMAIN cs}
       = {j \in DOMAIN array : array[j].kind = name}
  /\ \A i \in DOMAIN cs :
       /\ cs[i].name = name
       /\ cs[i].idx \in DOMAIN array
       /\ cs[i].fn = array[cs[i].idx].fn
  /\ \A i, k \in DOMAIN cs : i < k => cs[i].idx < cs[k].idx

\* C22: every dispatch of an event invokes the listeners registered for
\* that event, and only those, each once, in registration order.
C22_AllInOrder ==
  \A p \in DOMAIN events :
    events[p].ev = "fire"
      => InOrder(CallsOf(p), Pre.listeners, events[p].name)

C22_Witness ==
  /\ last.op = "tick"
  /\ Pre.listeners = <<Listener("onUpdate", "f"), Listener("onStop", "f"),
                       Listener("onUpdate", "g")>>
  /\ Cardinality(Fires("onUpdate")) = 1
  /\ Cardinality(Calls("onUpdate")) = 2
  /\ Calls("onStop") = {}

\* value and velocity are within the rest thresholds of cfg
WithinThresholds(cfg, value, velocity) ==
  /\ cfg.stiffness # 0
  /\ Abs(velocity) <= cfg.restVelocityThreshold
  /\ Abs(cfg.toValue - value) <= cfg.restDisplacementThreshold

RestAt(e) ==
  WithinThresholds([config EXCEPT !.toValue = e.toValue], e.value, e.velocity)

\* the stop() calls of the last operation that the host or a listener made
\* on an animating spring, by the log entry written when they returned
HostStops ==
  {i \in Stopped : last.op = "stop" \/ events[i].depth > 0}

\* the log entry of the invocation of the listener whose stop() call
\* returned at position i
CallerOf(i) ==
  CHOOSE j \in DOMAIN events :
    /\ j < i
    /\ events[j].ev = "call" /\ events[j].fn = "stop"
    /\ events[j].depth = events[i].depth - 1
    /\ \A j2 \in (j + 1)..(i - 1) :
         ~(events[j2].ev = "call" /\ events[j2].fn = "stop"
           /\ events[j2].depth = events[i].depth - 1)

Idle == ~isAnimating /\ rafQueue = {}

\* C25: with valid parameters, every requested frame delivered and time
\* passing between frames, a started spring whose trajectory settles within
\* the rest thresholds is eventually idle, with onStop dispatched exactly
\* once for the run.
C25_EventuallyIdle == isAnimating ~> (Idle /\ twin.stops = 1)

C25_Witness ==
  /\ last.op = "tick"
  /\ Pre.isAnimating
  /\ Pre.springTime > 0
  /\ NaturalEnd
  /\ Idle
  /\ twin.stops = 1

\* overshoot of the value v past the target of cfg, as stated
Overshoot(cfg, v) ==
  /\ cfg.overshootClamping
  /\ cfg.stiffness # 0
  /\ \/ cfg.fromValue < cfg.toValue /\ v > cfg.toValue
     \/ cfg.fromValue > cfg.toValue /\ v < cfg.toValue

\* the spring as a listener saw it when the log entry e was written
SeenAt(e) ==
  [Cur EXCEPT !.currentValue = e.value, !.currentVelocity = e.velocity,
              !.config = [config EXCEPT !.toValue = e.toValue]]

\* C27 as stated: the overshoot test reports an overshoot exactly when
\* overshootClamping is on, stiffness # 0, and the value is above toValue
\* with fromValue < toValue or below toValue with fromValue > toValue; with
\* fromValue = toValue it never reports one.
C27_OvershootAsStated ==
  /\ isSpringOvershooting(Cur) <=> Overshoot(config, currentValue)
  /\ \A i \in Calls("onUpdate") :
       isSpringOvershooting(SeenAt(events[i]))
         <=> Overshoot(SeenAt(events[i]).config, events[i].value)

\* a listener stopped the spring during the last operation
StoppedByListener == \E i \in Stopped : events[i].depth > 0

\* value and velocity when the onUpdate dispatch of the last tick returned:
\* those the solver gave, which a listener that reconfigured the spring
\* has made the start of its new run
Solved ==
  IF config # Pre.config
  THEN [value |-> config.fromValue, velocity |-> config.initialVelocity]
  ELSE Solve(Pre.config, Pre.springTime + Elapsed)

\* the last operation was a tick of an animating spring that no listener
\* stopped
TickToItsEnd ==
  /\ last.op = "tick"
  /\ Pre.isAnimating
  /\ ~last.threw
  /\ ~StoppedByListener

\* the tick ended the run / asked for the next tick
Terminated == NaturalEnd /\ ~isAnimating /\ Requests = {}

Continued ==
  isAnimating /\ Cardinality(Requests) = 1 /\ Fires("onStop") = {}

\* C26 as stated: a tick that no listener stopped ends the run if and only
\* if the value overshoots or value and velocity are within the rest
\* thresholds (bounds included); otherwise it requests exactly one tick and
\* isAnimating stays true.
C26_EndsIffOvershootOrRest ==
  TickToItsEnd
  => IF Overshoot(config, Solved.value)
        \/ WithinThresholds(config, Solved.value, Solved.velocity)
     THEN Terminated
     ELSE Continued

\* the last operation was a tick of a run whose spring time was still 0:
\* the first tick after the reset of start() or updateConfig()
FirstTick ==
  /\ last.op = "tick"
  /\ Pre.isAnimating
  /\ Pre.springTime = 0
  /\ ~last.threw
  /\ events # <<>>

\* C28 as stated: on the first tick of a run deltaTime is 0, and the first
\* onUpdate of the run reports springTime 0, currentValue = fromValue and
\* currentVelocity = initialVelocity, whatever time passed since the call
\* of start() or updateConfig().
C28_Original ==
  FirstTick
  => /\ events[1].ev = "fire" /\ events[1].name = "onUpdate"
     /\ events[1].springTime = 0
     /\ events[1].value = Pre.config.fromValue
     /\ events[1].velocity = Pre.config.initialVelocity

\* C28, amended: start() and updateConfig() set the time of the last tick
\* to the time of the call; the first tick of the run advances the spring
\* time by the time passed since that call, at most MAX_DELTA_TIME_MS, and
\* the first onUpdate reports the solver's value and velocity at that
\* spring time.
C28_FirstTickElapsed ==
  /\ ((last.op = "start" /\ Moves(Pre.config))
      \/ (last.op = "updateConfig" /\ ~last.threw))
       => (currentTime = now /\ springTime = 0)
  /\ FirstTick
       => /\ events[1].ev = "fire" /\ events[1].name = "onUpdate"
          /\ events[1].springTime = Elapsed
          /\ events[1].value = Solve(Pre.config, Elapsed).value
          /\ events[1].velocity = Solve(Pre.config, Elapsed).velocity

C28_Witness ==
  /\ FirstTick
  /\ Pre.currentTime = StartTime
  /\ now = StartTime + 16 * SCALE
  /\ events[1].springTime = 16 * SCALE
  /\ events[1].value # Pre.config.fromValue
  /\ events[1].velocity # Pre.config.initialVelocity

\* C29 as stated: a tick of an animating spring advances springTime by
\* exactly min(timestamp - lastTickTimestamp, MAX_DELTA_TIME_MS) and then
\* sets lastTickTimestamp to its timestamp; no tick and no updateConfig
\* increases springTime by more than MAX_DELTA_TIME_MS.
C29_ClampedAdvance ==
  /\ (last.op = "tick" /\ Pre.isAnimating)
       => /\ springTime = Pre.springTime + Elapsed
          /\ currentTime = now
  /\ last.op \in {"tick", "updateConfig"}
       => springTime - Pre.springTime <= MAX_DELTA_TIME_MS

\* the last operation reset the spring time: a start() of a config that
\* moves, called by the host or by a listener, or an updateConfig()
Resets ==
  \/ last.op = "updateConfig"
  \/ last.op = "start" /\ Moves(Pre.config)
  \/ \E i \in DOMAIN events : events[i].ev = "call" /\ events[i].fn = "start"

\* C30: with a clock that never runs backwards, springTime is never
\* negative, no operation other than a reset decreases it, and it is 0
\* right after every start() of a config that moves and after every
\* updateConfig().
C30_SpringTimeResets ==
  /\ springTime >= 0
  /\ ~Resets => springTime >= Pre.springTime
  /\ (last.op = "start" /\ Moves(Pre.config)) => springTime = 0
  /\ last.op = "updateConfig" => springTime = 0

\* an onUpdate listener of the last tick called stop(), and no listener
\* called start() after it
StoppedInUpdate ==
  /\ last.op = "tick"
  /\ \E i \in Calls("onUpdate") : events[i].fn = "stop"
  /\ ~\E i \in DOMAIN events : events[i].ev = "call" /\ events[i].fn = "start"

\* C31: when an onUpdate listener calls stop() during a tick, the tick ends
\* with that onUpdate dispatch: the value and velocity are those the
\* dispatch began with (no snap, although they may be within the rest
\* thresholds), onUpdate is dispatched once, onStop once (by that stop()),
\* no tick is requested and the spring is not animating.
C31_StopHaltsTick ==
  StoppedInUpdate
  => /\ Cardinality(Fires("onUpdate")) = 1
     /\ Cardinality(Fires("onStop")) = 1
     /\ Requests = {}
     /\ ~isAnimating
     /\ events[1].ev = "fire" /\ events[1].name = "onUpdate"
     /\ currentValue = events[1].value
     /\ currentVelocity = events[1].velocity
     /\ springTime = events[1].springTime
     /\ config = Pre.config
     /\ rafQueue \subseteq Pre.rafQueue

\* ... at a tick whose value was within the rest thresholds, short of the
\* target
C31_Witness ==
  /\ StoppedInUpdate
  /\ WithinThresholds(config, currentValue, currentVelocity)
  /\ currentValue # config.toValue

\* C32: every dispatch invokes the listeners that the registry held for its
\* event when the dispatch began, each once, in order: a listener that a
\* callback registers during the dispatch is not invoked in it, one that a
\* callback removes during the dispatch is still invoked in it.
C32_DispatchSnapshot ==
  \A p \in DOMAIN events :
    events[p].ev = "fire"
      => InOrder(CallsOf(p), events[p].listeners, events[p].name)

\* position i is a call made by the dispatch that began at position p
CalledBy(p, i) ==
  /\ events[p].ev = "fire"
  /\ p < i /\ i < NextFire(p)
  /\ events[i].ev = "call"
  /\ events[i].depth = events[p].depth

\* ... a dispatch in which g is invoked after a callback removed it, and
\* one nothing more is invoked in although a callback registered g
C32_Witness ==
  \/ \E p, i \in DOMAIN events :
       /\ CalledBy(p, i)
       /\ events[i].fn = "g"
       /\ ~\E j \in DOMAIN events[i].listeners :
            events[i].listeners[j].fn = "g"
  \/ \E p, i \in DOMAIN events :
       /\ CalledBy(p, i)
       /\ events[i].fn = "f"
       /\ Len(events[i].listeners) > Len(events[p].listeners)
       /\ ~\E j \in DOMAIN events : j > i /\ CalledBy(p, j)

\* the regime the damping of cfg calls for: c * c against 4 * k * m, and
\* allowsOverdamping
Regime(cfg) ==
  IF Square(cfg.damping) < 4 * Mul(cfg.stiffness, cfg.mass) THEN "under"
  ELSE IF Square(cfg.damping) = 4 * Mul(cfg.stiffness, cfg.mass)
          \/ ~cfg.allowsOverdamping
       THEN "critical"
       ELSE "over"

\* value and velocity by the formula of that regime
ByRegime(cfg, t) ==
  CASE Regime(cfg) = "under" -> UnderDamped(cfg, t)
    [] Regime(cfg) = "critical" -> CriticallyDamped(cfg, t)
    [] Regime(cfg) = "over" -> OverDamped(cfg, t)

\* the last operation was a tick that ran the solver
SolverTick ==
  /\ last.op = "tick"
  /\ Pre.isAnimating
  /\ ~last.threw
  /\ events # <<>>

\* C33: the value and velocity a tick computes are those of the
\* under-damped formula iff zeta < 1, of the critically damped formula iff
\* zeta = 1 or zeta > 1 without allowsOverdamping, of the over-damped
\* formula iff zeta > 1 with allowsOverdamping.
C33_Regimes ==
  SolverTick
  => /\ events[1].ev = "fire" /\ events[1].name = "onUpdate"
     /\ events[1].value
          = ByRegime(Pre.config, Pre.springTime + Elapsed).value
     /\ events[1].velocity
          = ByRegime(Pre.config, Pre.springTime + Elapsed).velocity

\* ... at a tick of a spring with zeta = 2 and no allowsOverdamping, where
\* the over-damped formula gives another value
C33_Witness ==
  /\ SolverTick
  /\ Zeta0(Pre.config) > SCALE
  /\ ~Pre.config.allowsOverdamping
  /\ Pre.springTime > 0
  /\ events[1].value
       = CriticallyDamped(Pre.config, Pre.springTime + Elapsed).value
  /\ events[1].value
       # OverDamped([Pre.config EXCEPT !.allowsOverdamping = TRUE],
                   Pre.springTime + Elapsed).value

\* C34: between operations, a spring that is animating has a tick
\* scheduled.
C34_AnimatingHasTick == isAnimating => rafQueue # {}

\* C35: the scheduler never holds two callbacks of the spring.
C35_OneTick == Cardinality(rafQueue) <= 1

\* C36: between operations, a spring that is not animating has no tick
\* scheduled and holds no handle.
C36_IdleHasNoTick ==
  ~isAnimating => (rafQueue = {} /\ currentAnimationStep = 0)

\* C37: every onStop dispatch follows an onStart dispatch that no onStop
\* dispatch has followed yet, and every onUpdate dispatch comes between the
\* two.
C37_Paired == twin.paired

\* the last operation was a tick delivered to a spring that was not
\* animating
StaleTick == last.op = "tick" /\ ~Pre.isAnimating

\* C38: a tick delivered to a spring that is not animating invokes no
\* listener, requests and cancels nothing, raises nothing and changes no
\* field of the spring.
C38_StaleTickNoOp ==
  StaleTick
  => /\ events = <<>>
     /\ ~last.threw
     /\ rafQueue \subseteq Pre.rafQueue
     /\ Cardinality(rafQueue) = Cardinality(Pre.rafQueue) - 1
     /\ config = Pre.config
     /\ listeners = Pre.listeners
     /\ currentAnimationStep = Pre.currentAnimationStep
     /\ currentTime = Pre.currentTime
     /\ springTime = Pre.springTime
     /\ currentValue = Pre.currentValue
     /\ currentVelocity = Pre.currentVelocity
     /\ ~isAnimating

\* ... with a mass, stiffness or damping that a tick of an animating spring
\* raises on, later than the last reset
C38_Witness ==
  /\ StaleTick
  /\ ~Valid(config)
  /\ now > currentTime

\* the onUpdate dispatches of the last tick that follow a snap: those the
\* tick itself began after the first
Snaps ==
  {p \in Fires("onUpdate") :
     /\ last.op = "tick"
     /\ events[p].depth = 0
     /\ \E q \in Fires("onUpdate") : q < p /\ events[q].depth = 0}

\* C39: the value a terminating tick snaps to, as the onUpdate dispatch
\* after the snap shows it, is the toValue of the config in force then,
\* also when an onUpdate listener of that tick called updateConfig().
C39_SnapToCurrentTarget ==
  \A p \in Snaps :
    /\ events[p].value = events[p].toValue
    /\ events[p].velocity = 0

====
